---- MODULE Spec2Model ----
(***************************************************************************)
(* Model of chatbot.py: the Message hierarchy's metadata view, the two     *)
(* recipient validators, the four Channel.send implementations and         *)
(* send_message_to_channel, driven by the loop of main().                  *)
(*                                                                         *)
(* A Python str is a sequence of one-character strings.  The character     *)
(* "sup2" stands for U+00B2 (SUPERSCRIPT TWO): str.isdigit() is True for   *)
(* it although it is not a decimal digit (the regex class \d rejects it).  *)
(***************************************************************************)
EXTENDS Naturals, Sequences, FiniteSets, TLC

VARIABLES
    pc,         \* position of the main loop / of the dispatch in progress
    channel,    \* the Channel instance send_message_to_channel was given
    message,    \* the Message it was given
    recipient,  \* the recipient it was given
    calls,      \* the methods channel.send has invoked so far, with arguments
    meta,       \* the local variable meta of send (<<>> until derived)
    out,        \* the lines printed during this dispatch
    exc,        \* the exception raised inside channel.send (NoExc if none)
    outcome,    \* how the dispatch ended
    test,       \* index of the running fixed validation test (0: none)
    now,        \* the clock read by datetime.now()
    first       \* <<>> or <<r>>: the first user dispatch, as completed

vars == <<pc, channel, message, recipient, calls, meta, out, exc, outcome,
          test, now, first>>

\* ------------------------------------------------------------------ bounds
MaxPad == 1         \* most spaces put before, and after, a recipient
MaxClock == 2       \* datetime.now() is read as 1..MaxClock

\* ------------------------------------------------------- program constants
MinPhoneLen == 8
MaxPhoneLen == 15
MaxUserLen == 50
FixedLongLen == 100

\* ------------------------------------------------------------ str helpers
DecimalChars == {"0", "1", "2", "3", "4", "5", "6", "7", "8", "9"}

\* str.isdigit() of one character
IsDigitChar(c) == c \in DecimalChars \cup {"sup2"}

\* str.isdigit(): False for the empty string
IsDigit(s) == Len(s) > 0 /\ \A i \in 1..Len(s) : IsDigitChar(s[i])

IsSpace(c) == c = " "

RECURSIVE LStrip(_)
LStrip(s) == IF Len(s) > 0 /\ IsSpace(s[1]) THEN LStrip(Tail(s)) ELSE s

RECURSIVE RStrip(_)
RStrip(s) ==
    IF Len(s) > 0 /\ IsSpace(s[Len(s)])
    THEN RStrip(SubSeq(s, 1, Len(s) - 1))
    ELSE s

\* str.strip()
Strip(s) == RStrip(LStrip(s))

\* s.startswith(c) for a one-character c
StartsWith(s, c) == Len(s) > 0 /\ s[1] = c

\* s.replace(c, "")
Remove(s, c) == SelectSeq(s, LAMBDA x : x # c)

\* repr() of a str without quotes or escapes in it
Repr(s) == <<"'">> \o s \o <<"'">>

\* c * n
RECURSIVE Run(_, _)
Run(c, n) == IF n = 0 THEN <<>> ELSE <<c>> \o Run(c, n - 1)

\* None, as a recipient (no str is this one-element sequence: "None" is not
\* a character)
NoneRecipient == <<"None">>

\* ------------------------------------------------------------- exceptions
NoExc == [type |-> "None", msg |-> <<>>]

InvalidRecipientError(label, arg) ==
    [type |-> "InvalidRecipientError", msg |-> <<label>> \o Repr(arg)]

\* None.strip()
AttributeError ==
    [type |-> "AttributeError",
     msg |-> <<"'NoneType' object has no attribute 'strip'">>]

\* --------------------------------------------------------------- messages
TextMessage(text, date) ==
    [cls |-> "TextMessage", text |-> text, send_date |-> date,
     file_path |-> "", format |-> "", duration_seconds |-> 0]

\* duration_seconds 0 stands for None
MediaMessage(text, path, fmt, duration, date) ==
    [cls |-> "MediaMessage", text |-> text, send_date |-> date,
     file_path |-> path, format |-> fmt, duration_seconds |-> duration]

PhotoMessage(text, path, fmt, date) ==
    [MediaMessage(text, path, fmt, 0, date) EXCEPT !.cls = "PhotoMessage"]

FileMessage(text, path, fmt, date) ==
    [MediaMessage(text, path, fmt, 0, date) EXCEPT !.cls = "FileMessage"]

MediaMetadata(m) ==
    LET base == [type |-> "media", text |-> m.text,
                 file_path |-> m.file_path, format |-> m.format]
    IN  IF m.duration_seconds # 0
        THEN base @@ [duration_seconds |-> m.duration_seconds]
        ELSE base

\* dict.pop(key, None)
Pop(d, key) == [k \in DOMAIN d \ {key} |-> d[k]]

\* message.metadata(), by the class of the message
Metadata(m) ==
    CASE m.cls = "TextMessage" -> [type |-> "text", text |-> m.text]
      [] m.cls = "MediaMessage" -> MediaMetadata(m)
      [] m.cls = "PhotoMessage" ->
            Pop([MediaMetadata(m) EXCEPT !.type = "photo"], "duration_seconds")
      [] m.cls = "FileMessage" ->
            Pop([MediaMetadata(m) EXCEPT !.type = "file"], "duration_seconds")

\* dict.get(key): None is ""
Get(d, key) == IF key \in DOMAIN d THEN d[key] ELSE ""

\* ------------------------------------------------------------- validators
PhoneLabel == "Telefone inválido: "
UserLabel == "Usuário inválido: "

\* _validate_phone with the upper limit excluded (len(r) < 15)
validate_phone_exclusive(rcpt) ==
    LET r0 == Strip(rcpt)
        r == IF StartsWith(r0, "+") THEN Tail(r0) ELSE r0
    IN  IF ~IsDigit(r) \/ ~(MinPhoneLen <= Len(r) /\ Len(r) < MaxPhoneLen)
        THEN InvalidRecipientError(PhoneLabel, rcpt)
        ELSE NoExc

\* PhoneChannel._validate_phone: the exception it raises, NoExc if none
validate_phone(rcpt) ==
    LET r0 == Strip(rcpt)
        r == IF StartsWith(r0, "+") THEN Tail(r0) ELSE r0
    IN  IF ~IsDigit(r) \/ ~(MinPhoneLen <= Len(r) /\ Len(r) <= MaxPhoneLen)
        THEN InvalidRecipientError(PhoneLabel, rcpt)
        ELSE NoExc

\* _validate_username with the limit excluded (len(r) >= 50)
validate_username_exclusive(rcpt) ==
    LET r == Strip(rcpt)
    IN  IF r = <<>> \/ Len(r) >= MaxUserLen
        THEN InvalidRecipientError(UserLabel, rcpt)
        ELSE NoExc

\* UserChannel._validate_username
validate_username(rcpt) ==
    LET r == Strip(rcpt)
    IN  IF r = <<>> \/ Len(r) > MaxUserLen
        THEN InvalidRecipientError(UserLabel, rcpt)
        ELSE NoExc

\* The condition of TelegramChannel.send without its startswith("+") test
TelegramIsUsername_noplus(r) ==
    StartsWith(r, "@") \/ ~IsDigit(Remove(r, "+"))

\* The condition of TelegramChannel.send falling back to the username
\* validator for the numbers the phone validator would refuse
TelegramIsUsername_fallback(r) ==
    \/ StartsWith(r, "@")
    \/ ~StartsWith(r, "+") /\ ~IsDigit(Remove(r, "+"))
    \/ validate_phone(r) # NoExc

\* The condition of TelegramChannel.send on r = recipient.strip()
TelegramIsUsername(r) ==
    StartsWith(r, "@") \/ (~StartsWith(r, "+") /\ ~IsDigit(Remove(r, "+")))

\* send going on to message.metadata() whatever the validator did
AfterValidation_continue(e) == "metadata"

\* The statement send continues with once the validator has returned or
\* raised: a raise leaves send for the handlers of send_message_to_channel
AfterValidation(e) == IF e = NoExc THEN "metadata" ELSE "except"

\* ----------------------------------------------------------------- inputs
Channels == {"WhatsApp", "Telegram", "Facebook", "Instagram"}

\* create_message_from_input with the defaults of its prompts
Messages(date) ==
    { TextMessage("Mensagem de teste", date),
      PhotoMessage("Mensagem de teste", "/tmp/arquivo_teste", "txt", date),
      MediaMessage("Mensagem de teste", "/tmp/arquivo_teste", "txt", 60, date),
      FileMessage("Mensagem de teste", "/tmp/arquivo_teste", "txt", date) }

\* What is put right before and right after the digits of a recipient
Prefixes ==
    {<<>>, <<"+">>, <<"@">>, <<"a">>, <<"1">>, <<"sup2">>,
     <<"+", "+">>, <<"+", " ">>}
Suffixes == {<<>>, <<"+">>, <<"a">>, <<"1">>}

\* Lengths of the run of digits: with a prefix and a suffix around it the
\* recipients have the lengths on both sides of every limit of the validators
RunLens == {0, MinPhoneLen - 1, MaxPhoneLen, MaxUserLen - 1}

Recipients ==
    { Run(" ", l) \o p \o Run("1", n) \o s \o Run(" ", t) :
        l \in 0..MaxPad, t \in 0..MaxPad,
        p \in Prefixes, s \in Suffixes, n \in RunLens }

\* The three dispatches of "Testar Validações (Exemplos Fixos)"; txt and vid
\* are constructed once, at date
FixedTest(k, date) ==
    LET txt == TextMessage("Olá! Esta é uma mensagem de texto para teste.", date)
        vid == MediaMessage("Veja este vídeo de teste", "/tmp/video.mp4",
                            "mp4", 120, date)
    IN  CASE k = 1 -> [channel |-> "WhatsApp", message |-> txt,
                       recipient |-> <<"a", "b", "c", "1", "2", "3">>]
          [] k = 2 -> [channel |-> "Instagram", message |-> txt,
                       recipient |-> Run("u", FixedLongLen)]
          [] k = 3 -> [channel |-> "Telegram", message |-> vid,
                       recipient |-> <<"@", "u", "s", "u", "a", "r", "i", "o",
                                       "_", "v", "a", "l", "i", "d", "o">>]

\* A message without its timestamp
Undated(m) == [m EXCEPT !.send_date = 0]

NoOutcome == [kind |-> "None", detail |-> <<>>]

\* ------------------------------------------------------------------- Init
Init ==
    /\ pc = "idle"
    /\ channel = "None"
    /\ message = TextMessage("", 0)
    /\ recipient = <<>>
    /\ calls = <<>>
    /\ meta = <<>>
    /\ out = <<>>
    /\ exc = NoExc
    /\ outcome = NoOutcome
    /\ test = 0
    /\ now = 1
    /\ first = <<>>

\* send_message_to_channel(c, m, r) is entered
Enter(c, m, r) ==
    /\ pc' = "send"
    /\ channel' = c
    /\ message' = m
    /\ recipient' = r
    /\ calls' = <<>>
    /\ meta' = <<>>
    /\ out' = <<>>
    /\ exc' = NoExc
    /\ outcome' = NoOutcome

\* main, option 1: the user composes a message, picks a channel and a
\* recipient
Call ==
    /\ pc = "idle"
    /\ test = 0
    /\ first = <<>>
    /\ \E c \in Channels, m \in Messages(now),
          r \in Recipients \cup {NoneRecipient} : Enter(c, m, r)
    /\ UNCHANGED <<test, now, first>>

\* main, option 1 again: the user composes the message of the first
\* dispatch anew (it gets the date of now) and sends it as before
Repeat ==
    /\ pc = "idle"
    /\ test = 0
    /\ first # <<>>
    /\ Enter(first[1].channel,
             [first[1].message EXCEPT !.send_date = now],
             first[1].recipient)
    /\ UNCHANGED <<test, now, first>>

\* main, option 2: the next dispatch of the fixed validation tests
RunFixedTest ==
    /\ \/ pc = "idle" /\ test = 0
       \/ pc = "fixed"
    /\ LET t == FixedTest(test + 1, IF test = 0 THEN now ELSE message.send_date)
       IN  Enter(t.channel, t.message, t.recipient)
    /\ test' = test + 1
    /\ UNCHANGED <<now, first>>

\* self._validate_phone(arg) or self._validate_username(arg), called by send
Validate(name, arg) ==
    /\ calls' = Append(calls, [op |-> name, arg |-> arg])
    /\ exc' = IF arg = NoneRecipient THEN AttributeError
              ELSE IF name = "_validate_phone" THEN validate_phone(arg)
              ELSE validate_username(arg)
    /\ pc' = AfterValidation(exc')

\* WhatsAppChannel.send calling the username validator
WhatsAppSend_username ==
    /\ pc = "send"
    /\ channel = "WhatsApp"
    /\ Validate("_validate_username", recipient)
    /\ UNCHANGED <<channel, message, recipient, meta, out, outcome, test, now, first>>

WhatsAppSend ==
    /\ pc = "send"
    /\ channel = "WhatsApp"
    /\ Validate("_validate_phone", recipient)
    /\ UNCHANGED <<channel, message, recipient, meta, out, outcome, test, now, first>>

TelegramSend ==
    /\ pc = "send"
    /\ channel = "Telegram"
    /\ IF recipient = NoneRecipient
       THEN /\ exc' = AttributeError
            /\ pc' = AfterValidation(exc')
            /\ UNCHANGED calls
       ELSE LET r == Strip(recipient)
            IN  IF TelegramIsUsername(r)
                THEN Validate("_validate_username", r)
                ELSE Validate("_validate_phone", r)
    /\ UNCHANGED <<channel, message, recipient, meta, out, outcome, test, now, first>>

FacebookSend ==
    /\ pc = "send"
    /\ channel = "Facebook"
    /\ Validate("_validate_username", recipient)
    /\ UNCHANGED <<channel, message, recipient, meta, out, outcome, test, now, first>>

InstagramSend ==
    /\ pc = "send"
    /\ channel = "Instagram"
    /\ Validate("_validate_username", recipient)
    /\ UNCHANGED <<channel, message, recipient, meta, out, outcome, test, now, first>>

\* meta = message.metadata()
DeriveMetadata ==
    /\ pc = "metadata"
    /\ meta' = Metadata(message)
    /\ calls' = Append(calls, [op |-> "metadata", arg |-> <<>>])
    /\ pc' = "report"
    /\ UNCHANGED <<channel, message, recipient, out, exc, outcome, test, now, first>>

\* The header line made of str(message), which holds the send date
HeaderLine_str(c, r, m) ==
    [kind |-> "header", channel |-> c, recipient |-> r,
     type |-> m.type, text |-> <<message.cls, message.text, message.send_date>>]

\* The lines send prints
HeaderLine(c, r, m) ==
    [kind |-> "header", channel |-> c, recipient |-> r,
     type |-> m.type, text |-> Get(m, "text")]

FileLine(m) ==
    [kind |-> "file", file_path |-> Get(m, "file_path"),
     format |-> Get(m, "format")]

SuccessLine(c) == [kind |-> "success", channel |-> c]

\* The file line printed for generic media only
HasFileLine_media(m) == m.type = "media"

HasFileLine(m) == m.type # "text"

Report(c, r, m) ==
    <<HeaderLine(c, r, m)>>
    \o (IF HasFileLine(m) THEN <<FileLine(m)>> ELSE <<>>)
    \o <<SuccessLine(c)>>

\* The three prints of send; send then returns and so does
\* send_message_to_channel
EmitReport ==
    /\ pc = "report"
    /\ out' = out \o Report(channel, recipient, meta)
    /\ outcome' = [kind |-> "Sent", detail |-> <<>>]
    /\ pc' = "done"
    /\ UNCHANGED <<channel, message, recipient, calls, meta, exc, test, now, first>>

\* send_message_to_channel without its last clause, except Exception
Handler_typed(e) ==
    CASE e.type = "InvalidRecipientError" -> "InvalidRecipient"
      [] e.type = "UnsupportedMessageError" -> "UnsupportedMessage"
      [] OTHER -> "Raised"

\* The except clauses of send_message_to_channel, in their order: the kind
\* of outcome an exception is reported as ("Raised": no clause catches it)
Handler(e) ==
    CASE e.type = "InvalidRecipientError" -> "InvalidRecipient"
      [] e.type = "UnsupportedMessageError" -> "UnsupportedMessage"
      [] e.type \in {"AttributeError", "Exception"} -> "Unexpected"
      [] OTHER -> "Raised"

ErrorLabel(kind) ==
    CASE kind = "InvalidRecipient" -> "[Erro] destinatário inválido: "
      [] kind = "UnsupportedMessage" -> "[Erro] mensagem não suportada neste canal: "
      [] kind = "Unexpected" -> "[Erro inesperado] "
      [] OTHER -> ""

Except ==
    /\ pc = "except"
    /\ LET kind == Handler(exc)
       IN  /\ outcome' = [kind |-> kind, detail |-> exc.msg]
           /\ out' = IF kind = "Raised" THEN out
                     ELSE Append(out, [kind |-> "error",
                                       label |-> ErrorLabel(kind),
                                       text |-> exc.msg])
    /\ pc' = "done"
    /\ UNCHANGED <<channel, message, recipient, calls, meta, exc, test, now, first>>

\* What is kept of a completed dispatch
Completed ==
    [channel |-> channel, message |-> Undated(message), recipient |-> recipient,
     outcome |-> outcome, out |-> out]

\* Back in the loop of main; the clock has advanced
Return ==
    /\ pc = "done"
    /\ pc' = IF test \in {1, 2} THEN "fixed" ELSE "idle"
    /\ test' = IF test = 3 THEN 0 ELSE test
    /\ now' = IF now < MaxClock THEN now + 1 ELSE now
    /\ first' = IF test = 0 /\ first = <<>> THEN <<Completed>> ELSE first
    /\ UNCHANGED <<channel, message, recipient, calls, meta, out, exc, outcome>>

Next ==
    \/ Call
    \/ Repeat
    \/ RunFixedTest
    \/ WhatsAppSend
    \/ TelegramSend
    \/ FacebookSend
    \/ InstagramSend
    \/ DeriveMetadata
    \/ EmitReport
    \/ Except
    \/ Return

Spec == Init /\ [][Next]_vars

\* ====================================================================
\* Properties
\* ====================================================================

\* The recipient is a str (not None)
IsStr == recipient # NoneRecipient

\* s without its leading and trailing spaces, defined by positions: from
\* the first character that is no space to the last one
Trimmed(s) ==
    IF \A i \in 1..Len(s) : s[i] = " " THEN <<>>
    ELSE SubSeq(s,
                CHOOSE i \in 1..Len(s) :
                    s[i] # " " /\ \A j \in 1..(i - 1) : s[j] = " ",
                CHOOSE i \in 1..Len(s) :
                    s[i] # " " /\ \A j \in (i + 1)..Len(s) : s[j] = " ")

\* s matches ^\+?D{8,15}$ with D the characters of digits
MatchesPhone(s, digits) ==
    \E plus \in {0, 1} :
        /\ plus = 1 => (Len(s) >= 1 /\ s[1] = "+")
        /\ Len(s) - plus >= 8
        /\ Len(s) - plus <= 15
        /\ \A i \in (plus + 1)..Len(s) : s[i] \in digits

\* What the phone validator is to accept: after trimming, an optional "+"
\* and 8 to 15 characters str.isdigit() holds of
PhoneAccepts(s) == MatchesPhone(Trimmed(s), DecimalChars \cup {"sup2"})

\* What the username validator is to accept
UsernameAccepts(s) == LET t == Trimmed(s) IN Len(t) >= 1 /\ Len(t) <= 50

\* The validator calls send has made
ValidatorCalls == SelectSeq(calls, LAMBDA c : c.op # "metadata")

\* The validator send called has returned or raised, on a str
Validated(op) ==
    /\ pc \notin {"idle", "fixed", "send"}
    /\ ValidatorCalls # <<>>
    /\ ValidatorCalls[1].op = op
    /\ ValidatorCalls[1].arg # NoneRecipient

ReportKinds == {"header", "file", "success"}

\* The lines of the delivery report among those printed
ReportLines == SelectSeq(out, LAMBDA l : l.kind \in ReportKinds)

FailureKinds == {"InvalidRecipient", "UnsupportedMessage", "Unexpected"}

\* C1: a dispatch on any of the four channels never raises to its caller:
\* it ends as exactly one of Sent, Failed{InvalidRecipient},
\* Failed{UnsupportedMessage}, Failed{Unexpected}, and a failure inside
\* channel.send other than the two typed ones ends as Failed{Unexpected}.
C1_DispatchNeverRaises ==
    pc = "done" =>
        /\ outcome.kind \in {"Sent"} \cup FailureKinds
        /\ outcome.kind = "Sent" <=> exc = NoExc
        /\ exc.type = "InvalidRecipientError" => outcome.kind = "InvalidRecipient"
        /\ exc.type = "UnsupportedMessageError" => outcome.kind = "UnsupportedMessage"
        /\ exc.type \notin {"None", "InvalidRecipientError", "UnsupportedMessageError"}
              => /\ outcome.kind = "Unexpected"
                 /\ outcome.detail = exc.msg

C1_Witness ==
    /\ pc = "done"
    /\ exc.type = "AttributeError"
    /\ outcome.kind = "Unexpected"

C3_UsernameValidator ==
    Validated("_validate_username") =>
        /\ exc = NoExc <=> UsernameAccepts(ValidatorCalls[1].arg)
        /\ exc # NoExc => exc.type = "InvalidRecipientError"

C3_Witness ==
    /\ Validated("_validate_username")
    /\ exc = NoExc
    /\ ValidatorCalls[1].arg # Trimmed(ValidatorCalls[1].arg)
    /\ Len(Trimmed(ValidatorCalls[1].arg)) = 50

\* C4 as stated: Telegram applies the username validator if the trimmed
\* recipient starts with "@" or, with every "+" removed, is not entirely
\* digits, and the phone validator otherwise; one validator runs per send.
C4_UsernameUnlessDigits ==
    (pc = "done" /\ channel = "Telegram" /\ IsStr) =>
        LET r == Trimmed(recipient)
            d == Remove(r, "+")
            user == \/ (Len(r) >= 1 /\ r[1] = "@")
                    \/ ~(Len(d) >= 1 /\ \A i \in 1..Len(d) : IsDigitChar(d[i]))
        IN  /\ Len(ValidatorCalls) = 1
            /\ ValidatorCalls[1].op =
                 IF user THEN "_validate_username" ELSE "_validate_phone"

\* C4 amended: Telegram applies the username validator if the trimmed
\* recipient starts with "@", or if it does not start with "+" and, with
\* every "+" removed, is not entirely digits; it applies the phone validator
\* otherwise (so "+abc" takes the phone path); one validator runs per send.
C4_PlusIsPhone ==
    (pc = "done" /\ channel = "Telegram" /\ IsStr) =>
        LET r == Trimmed(recipient)
            d == Remove(r, "+")
            user == \/ (Len(r) >= 1 /\ r[1] = "@")
                    \/ /\ ~(Len(r) >= 1 /\ r[1] = "+")
                       /\ ~(Len(d) >= 1 /\ \A i \in 1..Len(d) : IsDigitChar(d[i]))
        IN  /\ Len(ValidatorCalls) = 1
            /\ ValidatorCalls[1].op =
                 IF user THEN "_validate_username" ELSE "_validate_phone"

C4_Witness ==
    /\ pc = "done"
    /\ channel = "Telegram"
    /\ recipient = <<"+", "a">>
    /\ ValidatorCalls[1].op = "_validate_phone"

\* C5: a dispatch on WhatsApp ends Sent exactly when the phone validator
\* accepts the recipient, one on Facebook or Instagram exactly when the
\* username validator does, and ends Failed{InvalidRecipient} otherwise,
\* whatever the message.
C5_ChannelPolicy ==
    (pc = "done" /\ IsStr /\ channel # "Telegram") =>
        LET accepts == IF channel = "WhatsApp" THEN PhoneAccepts(recipient)
                       ELSE UsernameAccepts(recipient)
        IN  /\ accepts => outcome.kind = "Sent"
            /\ ~accepts => outcome.kind = "InvalidRecipient"

C5_Witness ==
    /\ pc = "done"
    /\ test = 1
    /\ channel = "WhatsApp"
    /\ recipient = <<"a", "b", "c", "1", "2", "3">>
    /\ outcome.kind = "InvalidRecipient"

\* C6: whenever a dispatch ends Failed{InvalidRecipient}, on any channel, the
\* detail carries the recipient exactly as the caller passed it, untrimmed.
C6_DetailEchoesRecipient ==
    (pc = "done" /\ outcome.kind = "InvalidRecipient") =>
        outcome.detail \in { <<PhoneLabel>> \o Repr(recipient),
                             <<UserLabel>> \o Repr(recipient) }

\* The type the metadata of a message of class cls is to carry
TypeOfClass(cls) ==
    CASE cls = "TextMessage" -> "text"
      [] cls = "PhotoMessage" -> "photo"
      [] cls = "FileMessage" -> "file"
      [] cls = "MediaMessage" -> "media"

\* C7: on every successful send the report names the channel, the recipient,
\* the message type and the message text, and holds the file path and the
\* format if and only if the type is not "text".
C7_ReportContents ==
    (pc = "done" /\ outcome.kind = "Sent") =>
        /\ Len(out) >= 2
        /\ out[1].kind = "header"
        /\ out[1].channel = channel
        /\ out[1].recipient = recipient
        /\ out[1].type = TypeOfClass(message.cls)
        /\ out[1].text = message.text
        /\ out[Len(out)].kind = "success"
        /\ out[Len(out)].channel = channel
        /\ IF message.cls = "TextMessage"
           THEN \A i \in 1..Len(out) : out[i].kind # "file"
           ELSE /\ Len(out) = 3
                /\ out[2].kind = "file"
                /\ out[2].file_path = message.file_path
                /\ out[2].format = message.format

C7_Witness ==
    /\ pc = "done"
    /\ test = 3
    /\ channel = "Telegram"
    /\ outcome.kind = "Sent"
    /\ out[2].kind = "file"
    /\ out[2].file_path = "/tmp/video.mp4"
    /\ out[2].format = "mp4"

\* The dispatch in progress has the inputs of the first one, the timestamp
\* of the message apart
SameAsFirst ==
    /\ first # <<>>
    /\ first[1].channel = channel
    /\ first[1].message = Undated(message)
    /\ first[1].recipient = recipient

C9_Order ==
    /\ Len(ValidatorCalls) <= 1
    /\ Len(calls) <= 2
    /\ Len(calls) = 2 => (calls[1].op # "metadata" /\ calls[2].op = "metadata")
    /\ DOMAIN meta # {} <=> (calls # <<>> /\ calls[Len(calls)].op = "metadata")
    /\ DOMAIN meta # {} => (Len(ValidatorCalls) = 1 /\ exc = NoExc)
    /\ ReportLines # <<>> =>
          /\ DOMAIN meta # {}
          /\ ReportLines = out
          /\ out[1].kind = "header"
          /\ out[Len(out)].kind = "success"
          /\ \A i \in 2..(Len(out) - 1) : out[i].kind = "file"
          /\ Len(out) <= 3
    /\ exc # NoExc =>
          /\ ReportLines = <<>>
          /\ DOMAIN meta = {}
          /\ \A i \in 1..Len(calls) : calls[i].op # "metadata"
          /\ pc \in {"except", "done", "idle", "fixed"}

C9_Witness ==
    /\ pc = "done"
    /\ exc.type = "InvalidRecipientError"
    /\ Len(calls) = 1
    /\ Len(out) = 1
    /\ out[1].kind = "error"

\* C10: for a recipient that, trimmed, is made of decimal digits only,
\* Telegram takes the phone path and never the username path; shorter than 8
\* or longer than 15, the dispatch ends Failed{InvalidRecipient}, although
\* the username validator would accept the string.
C10_DigitsTakePhonePath ==
    (channel = "Telegram" /\ IsStr /\ pc \notin {"idle", "fixed", "send"}) =>
        LET r == Trimmed(recipient)
        IN  (Len(r) >= 1 /\ \A i \in 1..Len(r) : r[i] \in DecimalChars) =>
                /\ Len(ValidatorCalls) = 1
                /\ ValidatorCalls[1].op = "_validate_phone"
                /\ (pc = "done" /\ (Len(r) < 8 \/ Len(r) > 15))
                      => outcome.kind = "InvalidRecipient"

C10_Witness ==
    /\ pc = "done"
    /\ channel = "Telegram"
    /\ recipient = Run("1", 7)
    /\ UsernameAccepts(recipient)
    /\ ValidatorCalls[1].op = "_validate_phone"
    /\ outcome.kind = "InvalidRecipient"

====
